---- MODULE Spec2Model ----
(***************************************************************************)
(* Conversational interaction router of the task-manager bot               *)
(* (src/src/presentation/handlers/task_handler.py, class TaskHandler).     *)
(*                                                                         *)
(* Strings are sequences of tokens.  A token is a TLA+ string that stands  *)
(* for a maximal run of characters without a separator; the separators     *)
(* "_", " ", ",", ".", ":" are tokens of their own.  So the button payload *)
(* "setdeadline_b_c" is <<"setdeadline", "_", "b", "_", "c">> and the text *)
(* "tomorrow 09:00" is <<"tomorrow", " ", "09", ":", "00">>.               *)
(* A datetime is the tuple <<year, month, day, hour, minute, second>>;     *)
(* None is the empty sequence <<>> for strings and datetimes alike.        *)
(***************************************************************************)
EXTENDS Integers, Sequences, FiniteSets, TLC

VARIABLES
    users,        \* User Directory: sender -> number of stored profiles
    store,        \* Task Store: task id -> task document
    user_data,    \* context.user_data: sender -> [pending_action, task_id]
    created,      \* number of documents the Task Store has inserted so far
    handlers,     \* handlers suspended at an await (asynchronous delivery)
    done,         \* the handler that completed last: its event and replies
    events,       \* number of inbound events delivered so far
    now,          \* datetime.utcnow(), the coordination clock
    callback_data,\* codec harness: the payload under decoding
    decoded,      \* codec harness: what the router decoded from it
    deadline_text,\* parser harness: the text handed to _parse_deadline
    parsed,       \* parser harness: what _parse_deadline made of it
    set_by,       \* history: per sender, the event that last wrote user_data
    consumed      \* history: <<event that set a pending action, event whose
                  \* follow-up wrote the Task Store for it>>

vars == <<users, store, user_data, created, handlers, done, events, now,
          callback_data, decoded, deadline_text, parsed, set_by, consumed>>

None == <<>>

-----------------------------------------------------------------------------
(* str.split(sep) and sep.join(parts) on token sequences                   *)

RECURSIVE SplitAcc(_, _, _, _)
SplitAcc(s, sep, cur, acc) ==
    IF s = <<>> THEN Append(acc, cur)
    ELSE IF Head(s) = sep
         THEN SplitAcc(Tail(s), sep, <<>>, Append(acc, cur))
         ELSE SplitAcc(Tail(s), sep, Append(cur, Head(s)), acc)

\* s.split(sep): always at least one part, empty parts kept
Split(s, sep) == SplitAcc(s, sep, <<>>, <<>>)

RECURSIVE Join(_, _)
\* sep.join(parts)
Join(parts, sep) ==
    IF Len(parts) = 0 THEN <<>>
    ELSE IF Len(parts) = 1 THEN parts[1]
    ELSE parts[1] \o <<sep>> \o Join(Tail(parts), sep)

\* s.startswith(word + sep) for a word without separator
StartsWith(s, word, sep) == Len(s) >= 2 /\ s[1] = word /\ s[2] = sep

-----------------------------------------------------------------------------
(* Action codec: the payload parsing at the head of handle_callback_query  *)

\* '_'.join(parts[1:]): the identity truncated at its first inner separator
JoinRestFirstOnly(parts) == parts[2]

\* '_'.join(parts[1:]) of the general form
JoinRest(parts) == Join(SubSeq(parts, 2, Len(parts)), "_")

\* '_'.join(parts[2:]): the identity truncated at its first inner separator
JoinRest2FirstOnly(parts) == parts[3]

\* '_'.join(parts[2:]) of the priority form
JoinRest2(parts) == Join(SubSeq(parts, 3, Len(parts)), "_")

\* The decoding of query.data, in the order of the code's tests.  form is
\* "empty" (no data), "lang", "priority", "general", or "invalid" (the
\* branches that only log an error).
DecodeCallback(data) ==
    LET parts == Split(data, "_") IN
    IF data = <<>> THEN
        [form |-> "empty", action |-> None, value |-> None, task_id |-> None]
    ELSE IF StartsWith(data, "lang", "_") THEN
        [form |-> "lang", action |-> <<"lang">>, value |-> parts[2],
         task_id |-> None]
    ELSE IF StartsWith(data, "priority", "_") THEN
        IF Len(parts) >= 3
        THEN [form |-> "priority", action |-> <<"priority">>,
              value |-> parts[2], task_id |-> JoinRest2(parts)]
        ELSE [form |-> "invalid", action |-> <<"priority">>, value |-> None,
              task_id |-> None]
    ELSE IF Len(parts) < 2 THEN
        [form |-> "invalid", action |-> None, value |-> None, task_id |-> None]
    ELSE
        [form |-> "general", action |-> parts[1], value |-> None,
         task_id |-> JoinRest(parts)]

-----------------------------------------------------------------------------
(* datetime: the calendar of the Python standard library                   *)

IsLeap(y) == (y % 4 = 0) /\ ((y % 100 # 0) \/ (y % 400 = 0))

DaysInMonth(y, m) ==
    IF m = 2 THEN (IF IsLeap(y) THEN 29 ELSE 28)
    ELSE IF m \in {4, 6, 9, 11} THEN 30 ELSE 31

\* datetime(year, month, day, hour, minute) raises ValueError unless this holds
ValidDate(y, m, d) ==
    /\ y >= 1 /\ y <= 9999
    /\ m >= 1 /\ m <= 12
    /\ d >= 1 /\ d <= DaysInMonth(y, m)

ValidTime(hh, mm) == hh >= 0 /\ hh <= 23 /\ mm >= 0 /\ mm <= 59

RECURSIVE DaysBeforeMonth(_, _)
DaysBeforeMonth(y, m) ==
    IF m <= 1 THEN 0 ELSE DaysBeforeMonth(y, m - 1) + DaysInMonth(y, m - 1)

\* date.toordinal(): 1 for 0001-01-01
Ordinal(dt) ==
    LET y1 == dt[1] - 1 IN
    y1 * 365 + (y1 \div 4) - (y1 \div 100) + (y1 \div 400)
        + DaysBeforeMonth(dt[1], dt[2]) + dt[3]

\* date.max.toordinal(), 9999-12-31
MaxOrdinal ==
    Ordinal(<<9999, 12, 31, 0, 0, 0>>)

NextDay(dt) ==
    IF dt[3] < DaysInMonth(dt[1], dt[2])
    THEN <<dt[1], dt[2], dt[3] + 1, dt[4], dt[5], dt[6]>>
    ELSE IF dt[2] < 12
         THEN <<dt[1], dt[2] + 1, 1, dt[4], dt[5], dt[6]>>
         ELSE <<dt[1] + 1, 1, 1, dt[4], dt[5], dt[6]>>

RECURSIVE AddDays(_, _)
\* dt + timedelta(days=n), the time of day kept
AddDays(dt, n) ==
    IF n <= 0 THEN dt
    ELSE LET next == NextDay(dt) IN
         IF next[1] >= dt[1] THEN AddDays(next, n - 1) ELSE dt

\* dt.replace(hour=hh, minute=mm): the seconds of dt kept
ReplaceTimeKeepSeconds(dt, hh, mm) == <<dt[1], dt[2], dt[3], hh, mm, dt[6]>>

\* dt.replace(hour=hh, minute=mm, second=0, microsecond=0)
ReplaceTime(dt, hh, mm) == <<dt[1], dt[2], dt[3], hh, mm, 0>>

\* dt.strftime('%d %b %Y %H:%M'): the seconds are not printed
Strftime(dt) == IF dt = None THEN None ELSE <<dt[3], dt[2], dt[1], dt[4], dt[5]>>

-----------------------------------------------------------------------------
(* Free text                                                               *)

\* The digit runs the inputs use: token -> <<number of digits, int(token),
\* int(token[:2])>>
Num ==
    ("00" :> <<2, 0, 0>>) @@ ("09" :> <<2, 9, 9>>) @@ ("10" :> <<2, 10, 10>>) @@
    ("01" :> <<2, 1, 1>>) @@ ("15" :> <<2, 15, 15>>) @@ ("25" :> <<2, 25, 25>>) @@
    ("32" :> <<2, 32, 32>>) @@ ("2026" :> <<4, 2026, 20>>) @@
    ("3" :> <<1, 3, 3>>) @@ ("1" :> <<1, 1, 1>>) @@
    ("13" :> <<2, 13, 13>>) @@ ("60" :> <<2, 60, 60>>) @@ ("000" :> <<3, 0, 0>>)

IsNum(t) == t \in DOMAIN Num
Digits(t) == Num[t][1]
IntOf(t) == Num[t][2]
IntOf2(t) == Num[t][3]

\* str.lower() of one token: the inputs' tokens with capitals
Lower(t) ==
    IF t = "Tomorrow" THEN "tomorrow"
    ELSE IF t = "TODAY" THEN "today"
    ELSE t

LowerAll(s) == [i \in 1..Len(s) |-> Lower(s[i])]

IsSpace(t) == t = " "

RECURSIVE LStrip(_)
LStrip(s) == IF s # <<>> /\ IsSpace(Head(s)) THEN LStrip(Tail(s)) ELSE s

RECURSIVE RStrip(_)
RStrip(s) ==
    IF s # <<>> /\ IsSpace(s[Len(s)]) THEN RStrip(SubSeq(s, 1, Len(s) - 1)) ELSE s

\* str.strip()
Strip(s) == RStrip(LStrip(s))

\* the tokens the regex fragments 'days?' and 'weeks?' match a prefix of
MatchesDays(t) == t \in {"day", "days", "daylight"}
MatchesWeeks(t) == t \in {"week", "weeks", "weekend"}

\* re.match of r'<word>\s+(\d{2}):(\d{2})' at the start of s
MatchWordTime(s, word) ==
    LET r == LStrip(Tail(s)) IN
    /\ Len(s) >= 2 /\ s[1] = word /\ IsSpace(s[2])
    /\ Len(r) >= 3
    /\ IsNum(r[1]) /\ Digits(r[1]) = 2
    /\ r[2] = ":"
    /\ IsNum(r[3]) /\ Digits(r[3]) >= 2

\* the (hour, minute) groups of a MatchWordTime match
TimeGroups(s) ==
    LET r == LStrip(Tail(s)) IN <<IntOf(r[1]), IntOf2(r[3])>>

\* re.match of r'(\d{2})\.(\d{2})\.(\d{4})\s+(\d{2}):(\d{2})' at the start of s
MatchAbsolute(s) ==
    LET r == IF Len(s) >= 6 THEN LStrip(SubSeq(s, 6, Len(s))) ELSE <<>> IN
    /\ Len(s) >= 9
    /\ IsNum(s[1]) /\ Digits(s[1]) = 2 /\ s[2] = "."
    /\ IsNum(s[3]) /\ Digits(s[3]) = 2 /\ s[4] = "."
    /\ IsNum(s[5]) /\ Digits(s[5]) = 4 /\ IsSpace(s[6])
    /\ Len(r) >= 3
    /\ IsNum(r[1]) /\ Digits(r[1]) = 2 /\ r[2] = ":"
    /\ IsNum(r[3]) /\ Digits(r[3]) >= 2

\* re.match of r'(\d+)\s*<unit>' at the start of s
MatchCount(s, weeks) ==
    LET r == IF s = <<>> THEN <<>> ELSE LStrip(Tail(s)) IN
    /\ Len(s) >= 2 /\ IsNum(s[1]) /\ r # <<>>
    /\ IF weeks THEN MatchesWeeks(r[1]) ELSE MatchesDays(r[1])

Parsed(dt) == [kind |-> "ok", dt |-> dt]
Unparseable == [kind |-> "none", dt |-> None]
Raised == [kind |-> "raise", dt |-> None]

\* now + timedelta(days=n): OverflowError past date.max
PlusDays(n) ==
    IF Ordinal(now) + n > MaxOrdinal THEN Raised ELSE Parsed(AddDays(now, n))

\* TaskHandler._parse_deadline: the five formats in the code's order.  kind is
\* "ok" (a datetime), "none" (None returned) or "raise" (an exception leaves
\* the function).
ParseDeadline(message_text) ==
    LET text == Strip(LowerAll(message_text))
        abs == MatchAbsolute(text)
        r == IF abs THEN LStrip(SubSeq(text, 6, Len(text))) ELSE <<>>
    IN
    IF abs /\ ValidDate(IntOf(text[5]), IntOf(text[3]), IntOf(text[1]))
           /\ ValidTime(IntOf(r[1]), IntOf2(r[3]))
    THEN Parsed(<<IntOf(text[5]), IntOf(text[3]), IntOf(text[1]), IntOf(r[1]), IntOf2(r[3]), 0>>)
    ELSE IF MatchWordTime(text, "today") THEN
        IF ValidTime(TimeGroups(text)[1], TimeGroups(text)[2])
        THEN Parsed(ReplaceTime(now, TimeGroups(text)[1], TimeGroups(text)[2]))
        ELSE Raised
    ELSE IF MatchWordTime(text, "tomorrow") THEN
        IF Ordinal(now) + 1 > MaxOrdinal THEN Raised
        ELSE IF ValidTime(TimeGroups(text)[1], TimeGroups(text)[2])
        THEN Parsed(ReplaceTime(AddDays(now, 1), TimeGroups(text)[1],
                                TimeGroups(text)[2]))
        ELSE Raised
    ELSE IF MatchCount(text, FALSE) THEN PlusDays(IntOf(text[1]))
    ELSE IF MatchCount(text, TRUE) THEN PlusDays(7 * IntOf(text[1]))
    ELSE Unparseable

\* message_text.replace(',', ' ').split(): the whitespace-separated words
RECURSIVE WordsAcc(_, _, _)
WordsAcc(s, cur, acc) ==
    IF s = <<>> THEN (IF cur = <<>> THEN acc ELSE Append(acc, cur))
    ELSE IF Head(s) \in {" ", ","}
         THEN WordsAcc(Tail(s), <<>>, IF cur = <<>> THEN acc ELSE Append(acc, cur))
         ELSE WordsAcc(Tail(s), Append(cur, Head(s)), acc)

\* [tag.strip().strip(',') for tag in text.replace(',', ' ').split() if tag.strip()]
ParseTags(message_text) == WordsAcc(message_text, <<>>, <<>>)

-----------------------------------------------------------------------------
(* Entities and collaborators                                              *)

\* core/entities/task.py, class Task: the fields of the stored record
Task(id, user_id, title) ==
    [id |-> id, user_id |-> user_id, title |-> title, description |-> None,
     status |-> "todo", priority |-> "medium", deadline |-> None, tags |-> <<>>]

\* "no task": what a handler holds before it has loaded one
NoTask == Task(None, None, None)

\* The shared state the handlers read and write
World == [users |-> users, store |-> store, user_data |-> user_data,
          created |-> created]

\* user_data.get('pending_action') when nothing is pending
NoAction == "None"

\* context.user_data of a user with no flow open
NoPending == [pending_action |-> NoAction, task_id |-> None]

\* bson's ObjectId(task_id) accepts the 24-digit hexadecimal strings only.  A
\* token among these stands for one such string; an identity of any other
\* token, or with an inner separator, makes ObjectId raise InvalidId.
HexTokens == {"a", "b", "c", "0", "1", "2", "3", "4", "5", "6", "7", "8", "9"}

IsObjectId(task_id) == Len(task_id) = 1 /\ task_id[1] \in HexTokens

\* MongoTaskRepository.get_by_id: "ok" with the document, "none", or "raise"
\* (ObjectId(task_id) rejects the identity, or Task.from_dict runs
\* Task.__post_init__, which rejects an empty title)
GetById(st, task_id) ==
    IF ~IsObjectId(task_id) THEN [kind |-> "raise", task |-> NoTask]
    ELSE IF task_id \notin DOMAIN st THEN [kind |-> "none", task |-> NoTask]
    ELSE IF st[task_id].title = <<>> THEN [kind |-> "raise", task |-> NoTask]
    ELSE [kind |-> "ok", task |-> st[task_id]]

\* update with no filter on _id: every document takes the written fields
UpdateEveryDocument(st, task) ==
    IF task.id # None /\ task.id \in DOMAIN st
    THEN [i \in DOMAIN st |-> [task EXCEPT !.id = i]]
    ELSE st

\* MongoTaskRepository.update: update_one({"_id": id}, {"$set": whole document});
\* nothing is written when the task has no id or no document matches
Update(st, task) ==
    IF task.id # None /\ task.id \in DOMAIN st
    THEN [st EXCEPT ![task.id] = task]
    ELSE st

\* MongoTaskRepository.delete: delete_one({"_id": id})
Delete(st, task_id) == [i \in DOMAIN st \ {task_id} |-> st[i]]

\* MongoTaskRepository.create: insert_one; the store generates the new id
Create(w, task) ==
    LET id == <<ToString(w.created + 1)>> IN
    [w EXCEPT !.store = (id :> [task EXCEPT !.id = id]) @@ w.store,
              !.created = w.created + 1]

\* MongoUserRepository.get_by_telegram_id: is a profile stored for the sender
Registered(w, sender) == w.users[sender] > 0

\* MongoUserRepository.create: insert_one, one more profile
CreateUser(w, sender) == [w EXCEPT !.users[sender] = @ + 1]

-----------------------------------------------------------------------------
(* Replies and keyboards                                                   *)

\* One outbound action: via is "reply" (message.reply_text) or "edit"
\* (query.edit_message_text); kind names the text; title, old and new are the
\* values the text interpolates; buttons are the callback_data of its keyboard.
Out(via, kind, title, old, new, buttons) ==
    [via |-> via, kind |-> kind, title |-> title, old |-> old, new |-> new,
     buttons |-> buttons]

Say(via, kind) == Out(via, kind, None, None, None, {})

\* f"{verb}_{task.id}"
Button(verb, task_id) == <<verb, "_">> \o task_id

\* _create_task_actions_keyboard
TaskActionsKeyboard(task_id) ==
    {Button(v, task_id) :
        v \in {"setdeadline", "addtags", "adddescription", "setpriority", "delete"}}

\* the keyboard of _show_task_edit_options and _handle_edit_selection
EditOptionsKeyboard(task_id) ==
    {Button(v, task_id) :
        v \in {"edittitle", "editdeadline", "edittags", "editdesc",
               "editpriority", "editcancel"}}

\* the keyboard of _handle_set_priority and _handle_edit_priority
PriorityKeyboard(task_id) ==
    {<<"priority", "_", p, "_">> \o task_id :
        p \in {"urgent", "high", "medium", "low"}}

\* the keyboard of _handle_delete_task
DeleteKeyboard(task_id) ==
    {Button("confirmdelete", task_id), Button("canceldelete", task_id)}

-----------------------------------------------------------------------------
(* Handlers.  A handler is a record; pc names the next step, and each step *)
(* is the code between two suspension points that touch shared state: one  *)
(* call into the Task Store or the User Directory, or one access to        *)
(* context.user_data, together with the local code and replies around it.  *)
(* seq is the event's delivery number, was is the sender's user_data at    *)
(* delivery and took is the event that had set the pending action the      *)
(* handler read; the handlers read none of the three.                      *)

Handler(kind, sender, text, pc) ==
    [kind |-> kind, sender |-> sender, text |-> text, pc |-> pc, seq |-> 0,
     was |-> NoPending, took |-> 0, action |-> None, value |-> None, task_id |-> None,
     pending_action |-> NoAction, task |-> NoTask, title |-> None,
     replies |-> <<>>]

\* the handler and the world after a step
After(h, w) == [h |-> h, w |-> w]

Finish(h, w) == After([h EXCEPT !.pc = "done"], w)

Goto(h, pc, w) == After([h EXCEPT !.pc = pc], w)

Send(h, out) == [h EXCEPT !.replies = Append(@, out)]

\* the verbs of handle_callback_query that open a flow, and the
\* pending_action each records
FlowOf ==
    ("setdeadline" :> "set_deadline") @@ ("addtags" :> "add_tags") @@
    ("adddescription" :> "add_description") @@ ("edittitle" :> "edit_title") @@
    ("editdeadline" :> "edit_deadline") @@ ("edittags" :> "edit_tags") @@
    ("editdesc" :> "edit_description")

IsFlowVerb(action) == Len(action) = 1 /\ action[1] \in DOMAIN FlowOf

\* handle_callback_query up to its first await on shared state
NewCallback(sender, data) ==
    LET d == DecodeCallback(data)
        pc == CASE d.form = "lang" -> "lang_create"
                [] d.form = "priority" -> "prio_get"
                [] d.form = "general" -> "cb_get_user"
                [] OTHER -> "done"
    IN [Handler("callback", sender, data, pc) EXCEPT
            !.action = d.action, !.value = d.value, !.task_id = d.task_id]

\* _handle_language_selection: creates a profile, whatever the directory holds
LangCreate(h, w) ==
    Finish(Send(h, Say("edit", "welcome")), CreateUser(w, h.sender))

\* priority branch of handle_callback_query: get_by_id(actual_task_id)
PrioGet(h, w) ==
    LET r == GetById(w.store, h.task_id) IN
    IF r.kind = "raise" THEN Finish(h, w)
    ELSE IF r.kind = "none" THEN Finish(Send(h, Say("edit", "task_not_found")), w)
    ELSE Goto([h EXCEPT !.task = r.task], "prio_update", w)

\* the priority map with every lookup missing: always the default
PriorityMapDefault(priority_value) == "medium"

\* priority_map.get(priority_value, TaskPriority.MEDIUM)
PriorityMap(priority_value) ==
    IF Len(priority_value) = 1 /\ priority_value[1] \in {"urgent", "high", "medium", "low"}
    THEN priority_value[1]
    ELSE "medium"

\* _process_set_priority
ProcessSetPriority(h, w) ==
    LET new_priority == PriorityMap(h.value)
        task == [h.task EXCEPT !.priority = new_priority]
    IN Finish(Send([h EXCEPT !.task = task],
                   Out("edit", "priority_set", task.title, None, <<new_priority>>, {})),
              [w EXCEPT !.store = Update(w.store, task)])

\* _get_user_from_update, then the handler goes on at pc `next`
GetUser(h, w, next) ==
    IF Registered(w, h.sender) THEN Goto(h, next, w)
    ELSE Finish(Send(h, Say("reply", "register_first")), w)

\* the reply of the verbs of handle_callback_query that record nothing
Show(h) ==
    LET a == h.action[1]
        t == h.task
    IN
    IF Len(h.action) # 1 THEN Say("edit", "unknown_action")
    ELSE IF a = "setpriority" \/ a = "editpriority"
    THEN Out("edit", "priority_keyboard", t.title, <<t.priority>>, None,
             PriorityKeyboard(t.id))
    ELSE IF a = "delete"
    THEN Out("edit", "delete_confirm", t.title, None, None, DeleteKeyboard(t.id))
    ELSE IF a = "editselect"
    THEN Out("edit", "edit_options", t.title, None, None, EditOptionsKeyboard(t.id))
    ELSE IF a = "editcancel" THEN Say("edit", "edit_cancelled")
    ELSE Say("edit", "unknown_action")

\* the dispatch on action with delete_<id> deleting without a confirmation
CbGetTaskDeleteAtOnce(h, w) ==
    LET r == GetById(w.store, h.task_id)
        g == [h EXCEPT !.task = r.task]
    IN
    IF r.kind = "raise" THEN Finish(h, w)
    ELSE IF r.kind = "none" THEN Finish(Send(h, Say("edit", "task_not_found")), w)
    ELSE IF IsFlowVerb(h.action) THEN Goto(g, "cb_set_pending", w)
    ELSE IF h.action \in {<<"confirmdelete">>, <<"delete">>} THEN Goto(g, "cb_delete", w)
    ELSE Finish(Send(g, Show(g)), w)

\* handle_callback_query: get_by_id(task_id) and the dispatch on action
CbGetTask(h, w) ==
    LET r == GetById(w.store, h.task_id)
        g == [h EXCEPT !.task = r.task]
    IN
    IF r.kind = "raise" THEN Finish(h, w)
    ELSE IF r.kind = "none" THEN Finish(Send(h, Say("edit", "task_not_found")), w)
    ELSE IF IsFlowVerb(h.action) THEN Goto(g, "cb_set_pending", w)
    ELSE IF h.action = <<"confirmdelete">> THEN Goto(g, "cb_delete", w)
    ELSE Finish(Send(g, Show(g)), w)

\* the flow-opening handlers with the assignments to user_data left out
SetPendingSkipped(h, w) ==
    Finish(Send(h, Out("edit", "prompt_" \o FlowOf[h.action[1]], h.task.title,
                       None, None, {})), w)

\* the flow-opening handlers keeping a task_id that is already recorded
SetPendingKeepTarget(h, w) ==
    LET kind == FlowOf[h.action[1]]
        old == w.user_data[h.sender].task_id
    IN Finish(Send(h, Out("edit", "prompt_" \o kind, h.task.title, None, None, {})),
              [w EXCEPT !.user_data[h.sender] =
                    [pending_action |-> kind,
                     task_id |-> IF old = None THEN h.task.id ELSE old]])

\* _handle_set_deadline, _handle_add_tags, _handle_add_description,
\* _handle_edit_title, _handle_edit_deadline, _handle_edit_tags,
\* _handle_edit_description: record the pending action, then prompt
SetPending(h, w) ==
    LET kind == FlowOf[h.action[1]]
        old == CASE kind = "edit_deadline" -> Strftime(h.task.deadline)
                 [] kind = "edit_tags" -> h.task.tags
                 [] kind = "edit_description" -> h.task.description
                 [] OTHER -> None
    IN Finish(Send(h, Out("edit", "prompt_" \o kind, h.task.title, old, None, {})),
              [w EXCEPT !.user_data[h.sender] =
                    [pending_action |-> kind, task_id |-> h.task.id]])

\* _process_delete_task also dropping the sender's pending action
ProcessDeleteTaskClearing(h, w) ==
    Finish(Send(h, Out("edit", "task_deleted", h.task.title, None, None, {})),
           [w EXCEPT !.store = Delete(w.store, h.task.id),
                     !.user_data[h.sender] = NoPending])

\* _process_delete_task
ProcessDeleteTask(h, w) ==
    IF h.task.id \in DOMAIN w.store
    THEN Finish(Send(h, Out("edit", "task_deleted", h.task.title, None, None, {})),
                [w EXCEPT !.store = Delete(w.store, h.task.id)])
    ELSE Finish(Send(h, Say("edit", "delete_failed")), w)

-----------------------------------------------------------------------------
(* handle_message and the commands                                         *)

\* the labels of the persistent keyboard (_get_main_keyboard) and the command
\* handler each is routed to
KeyboardRoutes ==
    (<<"[T]", " ", "Tasks">> :> "tasks") @@
    (<<"[+]", " ", "Add", " ", "Task">> :> "add_task") @@
    (<<"[D]", " ", "Deadlines">> :> "deadline") @@
    (<<"[S]", " ", "Search">> :> "search") @@
    (<<"[?]", " ", "Help">> :> "help")

\* the command handlers registered in main.py, by the command's first token
CommandRoutes ==
    ("/start" :> "start") @@ ("/help" :> "help") @@ ("/tasks" :> "tasks") @@
    ("/add_task" :> "add_task") @@ ("/deadline" :> "deadline") @@
    ("/search" :> "search") @@ ("/edit" :> "edit") @@ ("/edit_task" :> "edit_task")

\* where a command handler starts
CommandEntry(name) ==
    CASE name = "help" -> "cmd_help"
      [] name = "start" -> "start_get"
      [] OTHER -> "cmd_get_user"

\* a command handler entered for the event text; action keeps the handler's name
NewCommandHandler(kind, sender, text, name) ==
    [Handler(kind, sender, text, CommandEntry(name)) EXCEPT !.action = <<name>>]

\* a CommandHandler of main.py entered for "/name args"
NewCommand(sender, text) == NewCommandHandler("command", sender, text, CommandRoutes[text[1]])

\* handle_message up to its first await on shared state
NewMessage(sender, text) ==
    IF Strip(text) \in DOMAIN KeyboardRoutes
    THEN NewCommandHandler("message", sender, text, KeyboardRoutes[Strip(text)])
    ELSE Handler("message", sender, text, "msg_get_user")

\* text.split(' ', 1)[1] when the split has two parts, else None
AfterFirstSpace(text) ==
    IF \E i \in 1..Len(text) : text[i] = " "
    THEN LET i == CHOOSE j \in 1..Len(text) :
                      text[j] = " " /\ \A k \in 1..(j - 1) : text[k] # " "
         IN SubSeq(text, i + 1, Len(text))
    ELSE None

\* the inline argument of "/add_task <title>" and "/search <term>": None when
\* the text does not start with the command or carries no argument
InlineArgument(text, command) ==
    LET command_text == Strip(text) IN
    IF command_text # <<>> /\ command_text[1] = command
          /\ \E i \in 1..Len(command_text) : command_text[i] = " "
    THEN Strip(AfterFirstSpace(command_text))
    ELSE None

\* handle_start_command: get_by_telegram_id
StartGet(h, w) ==
    IF Registered(w, h.sender)
    THEN Finish(Send(h, Say("reply", "welcome_back")), w)
    ELSE Goto(h, "start_create", w)

\* handle_start_command: create the profile
StartCreate(h, w) ==
    Finish(Send(h, Say("reply", "welcome")), CreateUser(w, h.sender))

\* the tasks of a user, as get_user_tasks finds them
TasksOf(w, user_id) == {i \in DOMAIN w.store : w.store[i].user_id = user_id}

\* the command handlers once the user is loaded
Command(h, w) ==
    LET name == h.action[1]
        mine == TasksOf(w, h.sender)
        title == InlineArgument(h.text, "/add_task")
        term == InlineArgument(h.text, "/search")
        arg == AfterFirstSpace(h.text)
        r == GetById(w.store, Strip(arg))
    IN
    CASE name = "tasks" ->
            IF mine = {} THEN Finish(Send(h, Say("reply", "no_tasks")), w)
            ELSE Finish(Send(h, Out("reply", "tasks_list", None, None, None,
                    UNION {{Button("editselect", i), Button("delete", i)} : i \in mine})), w)
      [] name = "add_task" ->
            IF title # None
            THEN Goto([h EXCEPT !.title = title], "create_task", w)
            ELSE Finish(Send(h, Say("reply", "ask_task_name")),
                        [w EXCEPT !.user_data[h.sender].pending_action = "new_task_title"])
      [] name = "search" ->
            IF term # None
            THEN Goto([h EXCEPT !.title = term], "search", w)
            ELSE Finish(Send(h, Say("reply", "ask_keyword")),
                        [w EXCEPT !.user_data[h.sender].pending_action = "search_keyword"])
      [] name = "deadline" -> Finish(Send(h, Say("reply", "deadlines_list")), w)
      [] name = "edit" ->
            IF mine = {} THEN Finish(Send(h, Say("reply", "no_tasks")), w)
            ELSE Finish(Send(h, Out("reply", "task_picker", None, None, None,
                    {Button("editselect", i) : i \in mine})), w)
      [] name = "edit_task" ->
            IF arg = None THEN Finish(Send(h, Say("reply", "edit_task_usage")), w)
            ELSE IF r.kind = "raise" THEN Finish(Send(h, Say("reply", "edit_task_error")), w)
            ELSE IF r.kind = "none" THEN Finish(Send(h, Say("reply", "task_id_not_found")), w)
            ELSE Finish(Send(h, Out("reply", "edit_options", r.task.title, None, None,
                                    EditOptionsKeyboard(r.task.id))), w)
      [] OTHER -> Finish(h, w)

\* _create_and_confirm_task with no validation of the title
CreateAndConfirmTaskUnvalidated(h, w) ==
    LET id == <<ToString(w.created + 1)>> IN
    Finish(Send(h, Out("reply", "task_added", h.title, None, None,
                       TaskActionsKeyboard(id))),
           Create(w, Task(None, h.sender, h.title)))

\* _create_and_confirm_task: CreateTaskUseCase.execute and the confirmation.
\* Task(title="") and _validate_task raise on an empty or blank title; the
\* exception is caught by the calling handler, which replies only in
\* handle_add_task_command.
CreateAndConfirmTask(h, w) ==
    LET id == <<ToString(w.created + 1)>> IN
    IF Strip(h.title) = <<>>
    THEN IF h.action = <<"add_task">>
         THEN Finish(Send(h, Say("reply", "add_task_error")), w)
         ELSE Finish(h, w)
    ELSE Finish(Send(h, Out("reply", "task_added", h.title, None, None,
                            TaskActionsKeyboard(id))),
                Create(w, Task(None, h.sender, h.title)))

\* _execute_search: the store is only read
ExecuteSearch(h, w) == Finish(Send(h, Out("reply", "search_results", h.title, None, None, {})), w)

TaskTargeted ==
    {"set_deadline", "add_tags", "add_description", "edit_title",
     "edit_deadline", "edit_tags", "edit_description"}

\* the read of user_data with 'pending_action' left in place when a new task's
\* title or a search keyword is taken
ReadPendingNotPopped(h, w) ==
    LET pending_action == w.user_data[h.sender].pending_action
        task_id == w.user_data[h.sender].task_id
        g == [h EXCEPT !.pending_action = pending_action, !.task_id = task_id]
    IN
    IF pending_action = NoAction THEN Finish(g, w)
    ELSE IF pending_action = "new_task_title"
         THEN Goto([g EXCEPT !.title = Strip(h.text)], "create_task", w)
    ELSE IF pending_action = "search_keyword"
         THEN Goto([g EXCEPT !.title = Strip(h.text)], "search", w)
    ELSE IF task_id = None THEN Finish(g, w)
    ELSE Goto(g, "msg_get_task", w)

\* handle_message: the read of user_data and the two flows without a target
ReadPending(h, w) ==
    LET pending_action == w.user_data[h.sender].pending_action
        task_id == w.user_data[h.sender].task_id
        g == [h EXCEPT !.pending_action = pending_action, !.task_id = task_id]
        popped == [w EXCEPT !.user_data[h.sender].pending_action = NoAction]
    IN
    IF pending_action = NoAction THEN Finish(g, w)
    ELSE IF pending_action = "new_task_title"
         THEN Goto([g EXCEPT !.title = Strip(h.text)], "create_task", popped)
    ELSE IF pending_action = "search_keyword"
         THEN Goto([g EXCEPT !.title = Strip(h.text)], "search", popped)
    ELSE IF task_id = None THEN Finish(g, w)
    ELSE Goto(g, "msg_get_task", w)

\* handle_message: get_by_id(task_id)
MsgGetTask(h, w) ==
    LET r == GetById(w.store, h.task_id) IN
    IF r.kind = "raise" THEN Finish(h, w)
    ELSE IF r.kind = "none" THEN Finish(Send(h, Say("reply", "task_not_found")), w)
    ELSE Goto([h EXCEPT !.task = r.task], "msg_process", w)

\* a _process_* method that also moves the saved task to in_progress
SaveAsInProgress(h, w, task, out) ==
    Goto(Send([h EXCEPT !.task = [task EXCEPT !.status = "in_progress"]], out),
         "msg_clear",
         [w EXCEPT !.store = Update(w.store, [task EXCEPT !.status = "in_progress"])])

\* a _process_* method that saves `task` and confirms with `out`
Save(h, w, task, out) ==
    Goto(Send([h EXCEPT !.task = task], out), "msg_clear",
         [w EXCEPT !.store = Update(w.store, task)])

\* a _process_* method that returns after the reply `kind`, nothing saved
Refuse(h, w, kind) == Goto(Send(h, Say("reply", kind)), "msg_clear", w)

\* _process_set_deadline and _process_edit_deadline
ProcessDeadline(h, w, kind) ==
    LET deadline == ParseDeadline(h.text) IN
    IF deadline.kind = "raise" THEN Refuse(h, w, "deadline_error")
    ELSE IF deadline.kind = "none" THEN Refuse(h, w, "invalid_format")
    ELSE Save(h, w, [h.task EXCEPT !.deadline = deadline.dt],
              Out("reply", kind, h.task.title, None, Strftime(deadline.dt), {}))

\* _process_add_tags (extends the list) and _process_edit_tags (replaces it)
ProcessTags(h, w, edit) ==
    LET tags == ParseTags(h.text) IN
    IF tags = <<>> THEN Refuse(h, w, "no_valid_tags")
    ELSE IF edit
    THEN Save(h, w, [h.task EXCEPT !.tags = tags],
              Out("reply", "tags_updated", h.task.title, h.task.tags, tags, {}))
    ELSE Save(h, w, [h.task EXCEPT !.tags = @ \o tags],
              Out("reply", "tags_added", h.task.title, None, tags, {}))

\* handle_message: the dispatch on pending_action to the _process_* methods
MsgProcess(h, w) ==
    LET pa == h.pending_action
        t == h.task
    IN
    CASE pa = "set_deadline" -> ProcessDeadline(h, w, "deadline_set")
      [] pa = "edit_deadline" -> ProcessDeadline(h, w, "deadline_updated")
      [] pa = "add_tags" -> ProcessTags(h, w, FALSE)
      [] pa = "edit_tags" -> ProcessTags(h, w, TRUE)
      [] pa = "add_description" ->
            Save(h, w, [t EXCEPT !.description = h.text],
                 Out("reply", "description_added", t.title, None, h.text, {}))
      [] pa = "edit_description" ->
            Save(h, w, [t EXCEPT !.description = h.text],
                 Out("reply", "description_updated", t.title, t.description, h.text, {}))
      [] pa = "edit_title" ->
            Save(h, w, [t EXCEPT !.title = h.text],
                 Out("reply", "title_updated", None, t.title, h.text, {}))
      [] OTHER -> Goto(h, "msg_clear", w)

\* the end of handle_message with the two pops left out
ClearPendingSkipped(h, w) == Finish(h, w)

\* the end of handle_message with one user_data shared by all senders
ClearPendingOfEveryone(h, w) ==
    Finish(h, [w EXCEPT !.user_data = [s \in DOMAIN w.user_data |-> NoPending]])

\* the end of handle_message: pop 'pending_action' and 'task_id'
ClearPending(h, w) == Finish(h, [w EXCEPT !.user_data[h.sender] = NoPending])

-----------------------------------------------------------------------------
(* One step of a handler, and a handler run to its end                     *)

Step(h, w) ==
    CASE h.pc = "lang_create" -> LangCreate(h, w)
      [] h.pc = "prio_get" -> PrioGet(h, w)
      [] h.pc = "prio_update" -> ProcessSetPriority(h, w)
      [] h.pc = "cb_get_user" -> GetUser(h, w, "cb_get_task")
      [] h.pc = "cb_get_task" -> CbGetTask(h, w)
      [] h.pc = "cb_set_pending" -> SetPending(h, w)
      [] h.pc = "cb_delete" -> ProcessDeleteTask(h, w)
      [] h.pc = "cmd_help" -> Finish(Send(h, Say("reply", "help_text")), w)
      [] h.pc = "start_get" -> StartGet(h, w)
      [] h.pc = "start_create" -> StartCreate(h, w)
      [] h.pc = "cmd_get_user" -> GetUser(h, w, "cmd_run")
      [] h.pc = "cmd_run" -> Command(h, w)
      [] h.pc = "create_task" -> CreateAndConfirmTask(h, w)
      [] h.pc = "search" -> ExecuteSearch(h, w)
      [] h.pc = "msg_get_user" -> GetUser(h, w, "msg_read_pending")
      [] h.pc = "msg_read_pending" -> ReadPending(h, w)
      [] h.pc = "msg_get_task" -> MsgGetTask(h, w)
      [] h.pc = "msg_process" -> MsgProcess(h, w)
      [] h.pc = "msg_clear" -> ClearPending(h, w)
      [] OTHER -> After(h, w)

RECURSIVE Run(_, _)
\* the handler run from where it is to its end, nothing else in between
Run(h, w) ==
    IF h.pc = "done" THEN After(h, w)
    ELSE LET s == Step(h, w) IN Run(s.h, s.w)

-----------------------------------------------------------------------------
(* Inputs and bounds                                                       *)

\* inbound events delivered in one behaviour
MaxEvents == 3

\* profiles the User Directory stores for one sender
MaxProfiles == 2

Senders == {"u1", "u2"}

\* the identities of the two stored tasks, and one that is no ObjectId
IdA == <<"a">>
IdB == <<"b">>
IdZ == <<"zz">>

\* the coordination clock of the behaviours: 2026-02-14 10:30:15
Clock == <<2026, 2, 14, 10, 30, 15>>

TomorrowAt9 == <<"tomorrow", " ", "09", ":", "00">>

\* button payloads of the first sender: every verb of the router, one the
\* router does not know, the priority form, and malformed ones
Payloads ==
    {Button(v, IdA) : v \in DOMAIN FlowOf}
    \cup {Button(v, IdB) : v \in {"setdeadline", "addtags", "edittitle"}}
    \cup {Button(v, IdA) : v \in {"setpriority", "delete", "confirmdelete",
                "editselect", "editpriority", "editcancel", "canceldelete"}}
    \cup {Button("setdeadline", IdZ)}
    \cup {<<"priority", "_", p, "_">> \o IdA : p \in {"urgent", "high", "medium", "low", "bogus"}}
    \cup {<<"priority", "_", "high", "_">> \o IdB, <<"priority", "_", "high">>,
          <<"lang", "_", "en">>, <<"noop">>}

\* free-text messages of the first sender: follow-up texts (a deadline, two
\* that parse to nothing, a tag list, an hour no datetime has, an hour of
\* today that has passed, a blank) and the persistent keyboard's labels
Texts ==
    {TomorrowAt9, <<"garbage">>, <<",">>, <<"math", ",", " ", "exam">>,
     <<"today", " ", "25", ":", "00">>, <<"today", " ", "09", ":", "00">>, <<" ">>}
    \cup DOMAIN KeyboardRoutes

\* commands of the first sender, with and without an argument
Commands ==
    {<<c>> : c \in DOMAIN CommandRoutes}
    \cup {<<"/add_task", " ", "quiz">>, <<"/search", " ", "quiz">>,
          <<"/edit_task", " ">> \o IdA}

\* what the second sender sends: enough to act on the first sender's tasks
OtherPayloads ==
    {Button("setdeadline", IdA), Button("confirmdelete", IdA),
     <<"priority", "_", "low", "_">> \o IdA, <<"lang", "_", "en">>}

OtherTexts == {TomorrowAt9, <<"garbage">>}

OtherCommands == {<<"/start">>, <<"/add_task">>, <<"/add_task", " ", "quiz">>}

PayloadsOf(sender) == IF sender = "u1" THEN Payloads ELSE OtherPayloads
TextsOf(sender) == IF sender = "u1" THEN Texts ELSE OtherTexts
CommandsOf(sender) == IF sender = "u1" THEN Commands ELSE OtherCommands

\* the deadline task a already has when the behaviours start
DueA == <<2026, 2, 20, 12, 0, 0>>

\* the tags task b already has when the behaviours start
TagsB == << <<"math">> >>

\* `done` before any handler has completed
Idle == Handler("none", "", None, "done")

-----------------------------------------------------------------------------
(* The router with one event handled at a time (Application.builder()      *)
(* .token(...).build() in main.py: updates are processed sequentially)     *)

Init ==
    /\ users \in {[s \in Senders |-> IF s = "u1" THEN 1 ELSE n] : n \in {0, 1}}
    /\ store = (IdA :> [Task(IdA, "u1", <<"essay">>) EXCEPT !.deadline = DueA])
                    @@ (IdB :> [Task(IdB, "u1", <<"lab">>) EXCEPT !.tags = TagsB])
    /\ user_data = [s \in Senders |-> NoPending]
    /\ created = 0
    /\ handlers = {}
    /\ done = Idle
    /\ events = 0
    /\ now = Clock
    /\ callback_data = None
    /\ decoded = <<>>
    /\ deadline_text = None
    /\ parsed = <<>>
    /\ set_by = [s \in Senders |-> 0]
    /\ consumed = {}

\* the handler h0 is delivered and runs to completion
Handle(h0) ==
    LET r == Run([h0 EXCEPT !.seq = events + 1, !.was = user_data[h0.sender]], World) IN
    /\ events < MaxEvents
    /\ handlers = {}
    /\ \A s \in Senders : r.w.users[s] <= MaxProfiles
    /\ users' = r.w.users
    /\ store' = r.w.store
    /\ user_data' = r.w.user_data
    /\ created' = r.w.created
    /\ done' = r.h
    /\ events' = events + 1
    /\ UNCHANGED <<handlers, now, callback_data, decoded, deadline_text, parsed,
                   set_by, consumed>>

HandleCallbackQuery(sender, data) == Handle(NewCallback(sender, data))

HandleMessage(sender, text) == Handle(NewMessage(sender, text))

HandleCommand(sender, text) == Handle(NewCommand(sender, text))

Next ==
    \/ \E sender \in Senders : \E data \in PayloadsOf(sender) :
            HandleCallbackQuery(sender, data)
    \/ \E sender \in Senders : \E text \in TextsOf(sender) :
            HandleMessage(sender, text)
    \/ \E sender \in Senders : \E text \in CommandsOf(sender) :
            HandleCommand(sender, text)

Spec == Init /\ [][Next]_vars

-----------------------------------------------------------------------------
(* The router with handlers suspended at their awaits: every handler of    *)
(* task_handler.py is a coroutine that awaits the Task Store, the User     *)
(* Directory and the transport, and holds no lock over context.user_data;  *)
(* while one is suspended another event, of the same sender or of another, *)
(* is delivered and its handler runs up to its own await.                  *)

\* inbound events delivered in one behaviour with suspended handlers
MaxAsyncEvents == 3

\* what is sent while handlers are suspended: two flow-opening presses on
\* different tasks, a confirmed deletion, a follow-up text, and a command that
\* opens a flow
AsyncSenders == {"u1"}

AsyncPayloads ==
    {Button("setdeadline", IdA), Button("addtags", IdB), Button("confirmdelete", IdA)}

AsyncTexts == {TomorrowAt9}

AsyncCommands == {<<"/add_task">>}

\* the confirmations the _process_* methods send after task_repository.update
SavedKinds ==
    {"deadline_set", "deadline_updated", "tags_added", "tags_updated",
     "description_added", "description_updated", "title_updated"}

\* the event h0 is delivered and its handler runs up to its first await
Deliver(h0) ==
    /\ events < MaxAsyncEvents
    /\ handlers' = handlers \cup
            {[h0 EXCEPT !.seq = events + 1, !.was = user_data[h0.sender]]}
    /\ events' = events + 1
    /\ UNCHANGED <<users, store, user_data, created, done, now, callback_data,
                   decoded, deadline_text, parsed, set_by, consumed>>

DeliverCallbackQuery(sender, data) == Deliver(NewCallback(sender, data))

DeliverMessage(sender, text) == Deliver(NewMessage(sender, text))

DeliverCommand(sender, text) == Deliver(NewCommand(sender, text))

\* the suspended handler h is resumed and runs up to its next await
Resume(h) ==
    LET s == Step(h, World)
        g == IF h.pc = "msg_read_pending"
             THEN [s.h EXCEPT !.took = set_by[h.sender]] ELSE s.h
    IN
    /\ h \in handlers
    /\ \A u \in Senders : s.w.users[u] <= MaxProfiles
    /\ users' = s.w.users
    /\ store' = s.w.store
    /\ user_data' = s.w.user_data
    /\ created' = s.w.created
    /\ handlers' = (handlers \ {h}) \cup (IF g.pc = "done" THEN {} ELSE {g})
    /\ done' = IF g.pc = "done" THEN g ELSE done
    /\ set_by' = IF s.w.user_data[h.sender] # user_data[h.sender]
                       \/ h.pc = "cb_set_pending"
                 THEN [set_by EXCEPT ![h.sender] = h.seq] ELSE set_by
    /\ consumed' = IF /\ h.pc = "msg_process"
                      /\ Len(g.replies) > Len(h.replies)
                      /\ g.replies[Len(g.replies)].kind \in SavedKinds
                   THEN consumed \cup {<<h.took, h.seq>>} ELSE consumed
    /\ UNCHANGED <<events, now, callback_data, decoded, deadline_text, parsed>>

NextAsync ==
    \/ \E sender \in AsyncSenders : \E data \in AsyncPayloads :
            DeliverCallbackQuery(sender, data)
    \/ \E sender \in AsyncSenders : \E text \in AsyncTexts :
            DeliverMessage(sender, text)
    \/ \E sender \in AsyncSenders : \E text \in AsyncCommands :
            DeliverCommand(sender, text)
    \/ \E h \in handlers : Resume(h)

SpecAsync == Init /\ [][NextAsync]_vars

-----------------------------------------------------------------------------
(* Two users at once: u1 edits task a through a deadline flow and a         *)
(* priority press, u2 opens a tag flow on task b, answers it and sends     *)
(* /start, each handler suspended at its awaits as in SpecAsync            *)

SharedPayloads ==
    {<<"u1", Button("setdeadline", IdA)>>,
     <<"u1", <<"priority", "_", "high", "_", "a">>>>,
     <<"u2", Button("addtags", IdB)>>}

SharedTexts == {<<"u1", TomorrowAt9>>, <<"u2", <<"math", ",", " ", "exam">>>>}

SharedCommands == {<<"u2", <<"/start">>>>}

NextShared ==
    \/ \E e \in SharedPayloads : DeliverCallbackQuery(e[1], e[2])
    \/ \E e \in SharedTexts : DeliverMessage(e[1], e[2])
    \/ \E e \in SharedCommands : DeliverCommand(e[1], e[2])
    \/ \E h \in handlers : Resume(h)

SpecShared == Init /\ [][NextShared]_vars

-----------------------------------------------------------------------------
(* The action codec alone: the payload is drawn in the initial state and   *)
(* decoded once, as handle_callback_query decodes query.data               *)

\* tokens of a task identity
MaxIdLen == 3

IdTokens == {"a", "b", "_"}

\* the identities of at most n tokens
RECURSIVE IdsUpTo(_)
IdsUpTo(n) ==
    IF n = 0 THEN {<<>>}
    ELSE IdsUpTo(n - 1) \cup {Append(i, t) : i \in IdsUpTo(n - 1), t \in IdTokens}

\* verbs of the general form: the router's own and two it does not know
CodecVerbs ==
    DOMAIN FlowOf \cup {"setpriority", "delete", "confirmdelete", "editselect",
                        "editpriority", "editcancel", "canceldelete", "open"}

CodecPayloads ==
    {Button(v, i) : v \in CodecVerbs, i \in IdsUpTo(MaxIdLen)}
    \cup {<<"priority", "_", p, "_">> \o i :
            p \in {"urgent", "high", "medium", "low"}, i \in IdsUpTo(MaxIdLen)}
    \cup {<<"priority", "_", "high">>, <<"priority", "_">>, <<"noop">>, <<>>}

InitCodec ==
    /\ callback_data \in CodecPayloads
    /\ decoded = <<>>
    /\ users = [s \in Senders |-> 0]
    /\ store = <<>>
    /\ user_data = [s \in Senders |-> NoPending]
    /\ created = 0
    /\ handlers = {}
    /\ done = Idle
    /\ events = 0
    /\ now = Clock
    /\ deadline_text = None
    /\ parsed = <<>>
    /\ set_by = [s \in Senders |-> 0]
    /\ consumed = {}

\* the parsing of callback_data at the head of handle_callback_query
Decode ==
    /\ decoded = <<>>
    /\ decoded' = <<DecodeCallback(callback_data)>>
    /\ UNCHANGED <<callback_data, users, store, user_data, created, handlers,
                   done, events, now, deadline_text, parsed, set_by, consumed>>

NextCodec == Decode

SpecCodec == InitCodec /\ [][NextCodec]_vars

-----------------------------------------------------------------------------
(* The deadline parser alone: the text and the clock are drawn in the      *)
(* initial state and _parse_deadline is applied once                       *)

\* HH:MM with hour and minute inside and outside the clock's range
ClockTexts ==
    {<<hh, ":", mm>> : hh \in {"00", "09", "25"}, mm \in {"00", "15", "60"}}

\* N of 'N days' and 'N weeks'
CountTokens == {"1", "3", "10"}

ParserTexts ==
    {<<w, " ">> \o t : w \in {"today", "tomorrow"}, t \in ClockTexts}
    \cup {<<d, ".", m, ".", "2026", " ">> \o t :
            d \in {"01", "15", "32"}, m \in {"01", "13"},
            t \in {<<"09", ":", "00">>, <<"25", ":", "00">>}}
    \cup {<<n, " ", u>> : n \in CountTokens, u \in {"day", "days", "week", "weeks"}}
    \cup {TomorrowAt9 \o <<" ", "please">>,
          <<"15", ".", "01", ".", "2026", " ", "09", ":", "00", " ", "sharp">>,
          <<"3", " ", "daylight">>, <<"1", " ", "weekend">>,
          <<"today", " ", "09", ":", "000">>,
          <<"Tomorrow", " ", "09", ":", "00">>, <<"TODAY", " ", "09", ":", "00">>,
          <<" ", "tomorrow", " ", " ", "09", ":", "00", " ">>,
          <<"today">>, <<"garbage">>, <<",">>, <<"3">>, <<>>}

\* values of datetime.utcnow(): mid-month, the last second of a February, the
\* day before a leap day, the last day of a year
ParserClocks ==
    {Clock, <<2026, 2, 28, 23, 59, 59>>, <<2024, 2, 28, 0, 0, 0>>,
     <<2026, 12, 31, 12, 0, 30>>}

InitParser ==
    /\ deadline_text \in ParserTexts
    /\ now \in ParserClocks
    /\ parsed = <<>>
    /\ callback_data = None
    /\ decoded = <<>>
    /\ users = [s \in Senders |-> 0]
    /\ store = <<>>
    /\ user_data = [s \in Senders |-> NoPending]
    /\ created = 0
    /\ handlers = {}
    /\ done = Idle
    /\ events = 0
    /\ set_by = [s \in Senders |-> 0]
    /\ consumed = {}

\* deadline = self._parse_deadline(message_text)
Parse ==
    /\ parsed = <<>>
    /\ parsed' = <<ParseDeadline(deadline_text)>>
    /\ UNCHANGED <<deadline_text, now, callback_data, decoded, users, store,
                   user_data, created, handlers, done, events, set_by, consumed>>

NextParser == Parse

SpecParser == InitParser /\ [][NextParser]_vars

-----------------------------------------------------------------------------
(* Properties.  With one event handled at a time every step of Spec is the *)
(* handling of one event, and done' is the record of its handler.          *)

\* this step handles a button press of sender u with payload data
Press(u, data) ==
    events' = events + 1 /\ done'.kind = "callback" /\ done'.sender = u
        /\ done'.text = data

\* this step handles a free-text message of sender u
Message(u, text) ==
    events' = events + 1 /\ done'.kind = "message" /\ done'.sender = u
        /\ done'.text = text

\* this step leaves every task but T as it was, and T in the store
OnlyTask(T) ==
    /\ DOMAIN store' = DOMAIN store
    /\ \A i \in DOMAIN store \ {T} : store'[i] = store[i]

\* this step changes at most the field of task T that a pending kind names
OnlyField(T, kind) ==
    /\ OnlyTask(T)
    /\ store'[T] =
         CASE kind \in {"set_deadline", "edit_deadline"} ->
                [store[T] EXCEPT !.deadline = store'[T].deadline]
           [] kind \in {"add_tags", "edit_tags"} ->
                [store[T] EXCEPT !.tags = store'[T].tags]
           [] kind \in {"add_description", "edit_description"} ->
                [store[T] EXCEPT !.description = store'[T].description]
           [] kind = "edit_title" -> [store[T] EXCEPT !.title = store'[T].title]
           [] OTHER -> store[T]

Pending(kind, T) == [pending_action |-> kind, task_id |-> T]

\* C1: for a registered user with nothing pending and an existing task T, the
\* press setdeadline_<T> records (set_deadline, T) and sends the format prompt
\* with the store unchanged; the follow-up text "tomorrow 09:00" then sets T's
\* deadline to tomorrow 09:00 (2026-02-15 09:00 on the behaviours' clock),
\* clears the pending action and confirms with T's title and the formatted time.
C1_SetDeadlineScenario ==
    [][\A u \in Senders : \A T \in DOMAIN store :
        /\ (Press(u, Button("setdeadline", T)) /\ users[u] > 0
                /\ user_data[u].pending_action = NoAction)
            => /\ user_data'[u] = Pending("set_deadline", T)
               /\ store' = store
               /\ done'.replies =
                    <<Out("edit", "prompt_set_deadline", store[T].title, None, None, {})>>
        /\ (Message(u, TomorrowAt9) /\ users[u] > 0
                /\ user_data[u] = Pending("set_deadline", T))
            => /\ store' = [store EXCEPT ![T].deadline = <<2026, 2, 15, 9, 0, 0>>]
               /\ user_data'[u] = NoPending
               /\ done'.replies =
                    <<Out("reply", "deadline_set", store[T].title, None,
                          <<15, 2, 2026, 9, 0>>, {})>>
      ]_vars

\* C1 witness: the follow-up "tomorrow 09:00" has been applied to task a
C1_Witness ==
    /\ done.kind = "message" /\ done.text = TomorrowAt9
    /\ done.was = Pending("set_deadline", IdA)
    /\ IdA \in DOMAIN store /\ store[IdA].deadline = <<2026, 2, 15, 9, 0, 0>>
    /\ user_data[done.sender] = NoPending

\* C2: a flow-opening press of a registered user for an existing task records
\* exactly its own kind and target, whatever was pending before; and a
\* free-text message changes at most the field named by the pending kind, of
\* the pending target only (no other task, no other field).
C2_LastFlowWins ==
    [][\A u \in Senders : \A T \in DOMAIN store :
        /\ \A v \in DOMAIN FlowOf :
            (Press(u, Button(v, T)) /\ users[u] > 0)
                => user_data'[u] = Pending(FlowOf[v], T)
        /\ (events' = events + 1 /\ done'.kind = "message" /\ done'.sender = u
                /\ user_data[u].pending_action \in TaskTargeted
                /\ user_data[u].task_id = T)
            => OnlyField(T, user_data[u].pending_action)
      ]_vars

\* C2 witness: addtags_b pressed while (set_deadline, a) was pending
C2_Witness ==
    /\ done.kind = "callback" /\ done.text = Button("addtags", IdB)
    /\ done.was = Pending("set_deadline", IdA)
    /\ user_data[done.sender] = Pending("add_tags", IdB)

\* C3: under every interleaving of suspended handlers, a recorded pending
\* action is consumed at most once: the follow-ups that write the Task Store
\* for one recording of a pending action are at most one.
C3_ConsumedAtMostOnce ==
    \A a \in consumed : \A b \in consumed : a[1] = b[1] => a[2] = b[2]

\* this step handles an event of sender u
Event(u) == events' = events + 1 /\ done'.sender = u

\* the event handled by this step is a free-text message that the persistent
\* keyboard does not route to a command
FollowUp(u) ==
    Event(u) /\ done'.kind = "message" /\ Strip(done'.text) \notin DOMAIN KeyboardRoutes

\* C4 as stated: from an awaiting state, one more event of any kind of that
\* user leaves the user idle.
C4_AnyEventReturnsToIdle ==
    [][\A u \in Senders :
        (Event(u) /\ user_data[u].pending_action # NoAction)
            => user_data'[u].pending_action = NoAction
      ]_vars

\* C4 amended: from an awaiting state, a free-text follow-up of that user
\* leaves the user idle unless the pending target task is missing, and then
\* the slot is left as it was; a command, a keyboard label or a button press
\* never returns the user to idle (the pending action stays or is replaced).
C4_FollowUpReturnsToIdle ==
    [][\A u \in Senders :
        (Event(u) /\ user_data[u].pending_action # NoAction)
            => IF FollowUp(u)
               THEN IF user_data[u].pending_action \in TaskTargeted
                          /\ user_data[u].task_id \notin DOMAIN store
                    THEN user_data'[u] = user_data[u]
                    ELSE user_data'[u].pending_action = NoAction
               ELSE user_data'[u].pending_action # NoAction
      ]_vars

\* C4 witness: an edit-title follow-up has returned its sender to idle
C4_Witness ==
    /\ done.kind = "message" /\ done.text = <<"garbage">>
    /\ done.was = Pending("edit_title", IdA)
    /\ user_data[done.sender] = NoPending

\* C5: a follow-up that does not parse (deadline kinds) or yields no tag (tag
\* kinds) leaves the task unchanged, sends the format hint, and leaves the
\* same pending action recorded for a retry.
C5_ParseFailureKeepsPending ==
    [][\A u \in Senders : \A T \in DOMAIN store :
        (/\ user_data[u].task_id = T
         /\ \/ /\ user_data[u].pending_action \in {"set_deadline", "edit_deadline"}
               /\ Message(u, <<"garbage">>) \/ Message(u, <<",">>)
            \/ /\ user_data[u].pending_action \in {"add_tags", "edit_tags"}
               /\ Message(u, <<",">>))
            => /\ store' = store
               /\ Len(done'.replies) = 1
               /\ done'.replies[1].kind \in {"invalid_format", "no_valid_tags"}
               /\ user_data'[u] = user_data[u]
      ]_vars

\* C6: a follow-up whose pending target task is no longer stored is answered
\* "task not found", writes nothing, and clears the pending action.
C6_MissingTargetClearsPending ==
    [][\A u \in Senders :
        (/\ FollowUp(u)
         /\ user_data[u].pending_action \in TaskTargeted
         /\ user_data[u].task_id # None
         /\ user_data[u].task_id \notin DOMAIN store)
            => /\ done'.replies = <<Say("reply", "task_not_found")>>
               /\ store' = store
               /\ user_data'[u].pending_action = NoAction
      ]_vars

\* C7: no event of a sender changes or deletes a task owned by another user.
C7_OnlyOwnerChangesTask ==
    [][\A u \in Senders : \A T \in DOMAIN store :
        (Event(u) /\ store[T].user_id # u)
            => (T \in DOMAIN store' /\ store'[T] = store[T])
      ]_vars

\* the payload is a flow-opening verb for task T
OpensFlow(data, v, T) == v \in DOMAIN FlowOf /\ data = Button(v, T)

\* C8 as stated: after a press of any verb handled mid-flow the previously
\* pending action is no longer recorded (the slot is empty or holds the
\* action the press itself opened).
C8_AnyPressDiscardsPending ==
    [][\A u \in Senders :
        (Event(u) /\ done'.kind = "callback" /\ user_data[u].pending_action # NoAction)
            => \/ user_data'[u].pending_action = NoAction
               \/ \E v \in DOMAIN FlowOf : \E T \in DOMAIN store :
                    /\ OpensFlow(done'.text, v, T)
                    /\ user_data'[u] = Pending(FlowOf[v], T)
      ]_vars

\* C8 amended: mid-flow, a press of a flow-opening verb for an existing task
\* replaces the pending action by its own kind and target and sends only its
\* ordinary prompt; a press of any other verb, or for a missing task, leaves
\* the recorded pending action as it was.
C8_FlowPressReplacesPending ==
    [][\A u \in Senders :
        (Event(u) /\ done'.kind = "callback" /\ user_data[u].pending_action # NoAction)
            => IF \E v \in DOMAIN FlowOf : \E T \in DOMAIN store :
                        OpensFlow(done'.text, v, T)
               THEN \E v \in DOMAIN FlowOf : \E T \in DOMAIN store :
                        /\ OpensFlow(done'.text, v, T)
                        /\ user_data'[u] = Pending(FlowOf[v], T)
                        /\ Len(done'.replies) = 1
                        /\ done'.replies[1].kind = "prompt_" \o FlowOf[v]
                        /\ done'.replies[1].title = store[T].title
               ELSE user_data'[u] = user_data[u]
      ]_vars

\* C8 witness: confirmdelete_a handled mid-flow; the stale pending action on
\* the deleted task is still recorded
C8_Witness ==
    /\ done.kind = "callback" /\ done.text = Button("confirmdelete", IdA)
    /\ done.was = Pending("set_deadline", IdA)
    /\ user_data[done.sender] = Pending("set_deadline", IdA)
    /\ IdA \notin DOMAIN store

\* C9: for every priority value p and existing task T, the press
\* priority_<p>_<T> sets T's priority to p in the store and nothing else,
\* sends exactly one reply, and leaves every pending action as it was.
C9_PrioritySelection ==
    [][\A u \in Senders : \A T \in DOMAIN store :
        \A p \in {"urgent", "high", "medium", "low"} :
            Press(u, <<"priority", "_", p, "_">> \o T)
                => /\ store' = [store EXCEPT ![T].priority = p]
                   /\ Len(done'.replies) = 1
                   /\ user_data' = user_data
      ]_vars

\* C9 witness: priority_high_b_c handled mid-flow, b_c is now high
C9_Witness ==
    /\ done.kind = "callback" /\ done.text = <<"priority", "_", "high", "_">> \o IdB
    /\ done.was.pending_action # NoAction
    /\ store[IdB].priority = "high"
    /\ Len(done.replies) = 1

\* C10: for every general-form verb v and identity i, with or without inner
\* separators, the payload v_i decodes to verb v and identity i exactly.
C10_GeneralRoundTrip ==
    \A v \in CodecVerbs : \A i \in IdsUpTo(MaxIdLen) :
        (decoded # <<>> /\ callback_data = <<v, "_">> \o i)
            => /\ decoded[1].form = "general"
               /\ decoded[1].action = <<v>>
               /\ decoded[1].task_id = i

\* C10 witness: an identity with an inner separator has been decoded
C10_Witness ==
    /\ decoded # <<>>
    /\ callback_data = <<"edittags", "_", "a", "_", "b">>
    /\ decoded[1].task_id = <<"a", "_", "b">>

\* C11: for every priority value p and identity i, with or without inner
\* separators, the payload priority_p_i decodes to the verb priority, the
\* sub-value p and the identity i exactly.
C11_PriorityRoundTrip ==
    \A p \in {"urgent", "high", "medium", "low"} : \A i \in IdsUpTo(MaxIdLen) :
        (decoded # <<>> /\ callback_data = <<"priority", "_", p, "_">> \o i)
            => /\ decoded[1].form = "priority"
               /\ decoded[1].action = <<"priority">>
               /\ decoded[1].value = <<p>>
               /\ decoded[1].task_id = i

\* C11 witness: a priority payload whose identity has an inner separator has
\* been decoded
C11_Witness ==
    /\ decoded # <<>>
    /\ callback_data = <<"priority", "_", "low", "_", "a", "_", "b">>
    /\ decoded[1].value = <<"low">>
    /\ decoded[1].task_id = <<"a", "_", "b">>

\* C12: a button press whose payload is malformed (one token in the general
\* form, two in the priority form) is answered with the one reply "unknown
\* action" and changes neither the Task Store nor any pending action.
C12_MalformedPayloadAnswered ==
    [][\A u \in Senders : \A data \in {<<"noop">>, <<"priority", "_", "high">>} :
        Press(u, data)
            => /\ done'.replies = <<Say("edit", "unknown_action")>>
               /\ store' = store
               /\ user_data' = user_data
      ]_vars

\* C13: a button press whose verb the router does not know is answered
\* "unknown action" whether or not its identity names a stored task, and
\* changes neither the Task Store nor any pending action.
C13_UnknownVerbAnswered ==
    [][\A u \in Senders : \A T \in {IdA, IdB} :
        Press(u, Button("canceldelete", T))
            => /\ done'.replies = <<Say("edit", "unknown_action")>>
               /\ store' = store
               /\ user_data' = user_data
      ]_vars

\* C14: a priority-form press whose sub-value is none of urgent, high,
\* medium, low leaves every field of every stored task as it was.
C14_UnknownPriorityRefused ==
    [][\A u \in Senders : \A T \in {IdA, IdB} :
        Press(u, <<"priority", "_", "bogus", "_">> \o T) => store' = store
      ]_vars

\* C15: when the Task Store call of a button press fails (here get_by_id on
\* an identity that is no ObjectId, pressed by a registered sender), the
\* sender receives a reply: the fault does not end the handling silently.
C15_CollaboratorFaultAnswered ==
    [][\A u \in Senders :
        (Press(u, Button("setdeadline", IdZ)) /\ users[u] > 0)
            => Len(done'.replies) >= 1
      ]_vars

\* C16: a lang_ press creates a profile exactly when the sender has none, so
\* after it the User Directory holds exactly one profile for the sender.
C16_LangRegistersOnce ==
    [][\A u \in Senders :
        Press(u, <<"lang", "_", "en">>)
            => users'[u] = 1 /\ (users[u] > 0 => users' = users)
      ]_vars

\* C17: for every text and every clock value the deadline parser returns a
\* timestamp or "unparseable"; it never raises.
C17_ParserNeverRaises ==
    parsed # <<>> => parsed[1].kind \in {"ok", "none"}

\* the whole trimmed, lower-cased text t is an instance of one of the five
\* forms DD.MM.YYYY HH:MM, today HH:MM, tomorrow HH:MM, N day(s), N week(s)
IsWholeForm(t) ==
    LET clock(r) == Len(r) = 3 /\ IsNum(r[1]) /\ Digits(r[1]) = 2 /\ r[2] = ":"
                        /\ IsNum(r[3]) /\ Digits(r[3]) = 2
    IN
    \/ /\ Len(t) >= 9
       /\ IsNum(t[1]) /\ Digits(t[1]) = 2 /\ t[2] = "."
       /\ IsNum(t[3]) /\ Digits(t[3]) = 2 /\ t[4] = "."
       /\ IsNum(t[5]) /\ Digits(t[5]) = 4 /\ IsSpace(t[6])
       /\ clock(LStrip(SubSeq(t, 6, Len(t))))
    \/ /\ Len(t) >= 4 /\ t[1] \in {"today", "tomorrow"} /\ IsSpace(t[2])
       /\ clock(LStrip(Tail(t)))
    \/ /\ Len(t) >= 2 /\ IsNum(t[1])
       /\ LStrip(Tail(t)) \in {<<"day">>, <<"days">>, <<"week">>, <<"weeks">>}

\* C18: the deadline parser returns a timestamp only if the whole text,
\* trimmed and lower-cased, is an instance of one of the five forms; a text
\* that merely begins with such a form is unparseable.
C18_ExactlyFiveGrammars ==
    (parsed # <<>> /\ parsed[1].kind = "ok")
        => IsWholeForm(Strip(LowerAll(deadline_text)))

\* the time of day of a datetime
TimeOfDay(dt) == <<dt[4], dt[5], dt[6]>>

\* datetime dt lies n calendar days after the date of `now`
DaysAfterNow(dt, n) ==
    ValidDate(dt[1], dt[2], dt[3]) /\ Ordinal(dt) = Ordinal(now) + n

C21_KindRecordedWithItsTarget ==
    [][\A u \in Senders :
        (user_data'[u] # user_data[u] /\ user_data'[u].pending_action \in TaskTargeted)
            => \E h \in handlers :
                  /\ h.sender = u /\ h.kind = "callback" /\ h.pc = "cb_set_pending"
                  /\ IsFlowVerb(h.action) /\ h.task_id # None
                  /\ h.text = Button(h.action[1], h.task_id)
                  /\ user_data'[u] = Pending(FlowOf[h.action[1]], h.task_id)
      ]_vars

\* a press on task b has been handled while (set_deadline, a) was pending and
\* while another press on task a is suspended; the slot holds the completed
\* press's kind with task b
C21_Witness ==
    /\ done.kind = "callback" /\ done.text = Button("addtags", IdB)
    /\ done.was = Pending("set_deadline", IdA)
    /\ \E h \in handlers : h.kind = "callback" /\ h.text = Button("setdeadline", IdA)
    /\ user_data["u1"] = Pending("add_tags", IdB)

\* the handler h ended by saving the task and confirming
Applied(h) ==
    Len(h.replies) > 0 /\ h.replies[Len(h.replies)].kind \in SavedKinds

\* C22 as stated: with one event handled at a time, once a follow-up to a
\* task-targeted pending action has been applied, the slot is empty and any
\* further text message of that user writes nothing and gets no reply.
C22_AnySecondTextIgnored ==
    [][\A u \in Senders :
        (/\ done.kind = "message" /\ done.sender = u /\ Applied(done)
         /\ done.was.pending_action \in TaskTargeted)
            => /\ user_data[u] = NoPending
               /\ (Event(u) /\ done'.kind = "message")
                     => store' = store /\ done'.replies = <<>>
      ]_vars

\* C22 amended: with one event handled at a time, once a follow-up to a
\* task-targeted pending action has been applied, the slot is empty; a second
\* text message of that user that is not a label of the persistent keyboard
\* writes nothing, gets no reply and leaves the slot empty, and a keyboard
\* label is answered as its command, without a write to the Task Store.
C22_FollowUpNotReplayed ==
    [][\A u \in Senders :
        (/\ done.kind = "message" /\ done.sender = u /\ Applied(done)
         /\ done.was.pending_action \in TaskTargeted)
            => /\ user_data[u] = NoPending
               /\ (Event(u) /\ done'.kind = "message")
                     => /\ store' = store
                        /\ IF FollowUp(u)
                           THEN done'.replies = <<>> /\ user_data'[u] = NoPending
                           ELSE Len(done'.replies) > 0
      ]_vars

\* C22 witness: "tomorrow 09:00" was applied to task a by the second event,
\* and the same text sent again as the third event found nothing pending
C22_Witness ==
    /\ events = 3 /\ done.seq = 3
    /\ done.kind = "message" /\ done.text = TomorrowAt9 /\ done.sender = "u1"
    /\ done.was = NoPending /\ done.replies = <<>>
    /\ IdA \in DOMAIN store /\ store[IdA].deadline = <<2026, 2, 15, 9, 0, 0>>

\* the field of task t that a follow-up of the given kind replaces, as the
\* confirmations print it
Shown(kind, t) ==
    CASE kind \in {"set_deadline", "edit_deadline"} -> Strftime(t.deadline)
      [] kind \in {"add_tags", "edit_tags"} -> t.tags
      [] kind \in {"add_description", "edit_description"} -> t.description
      [] OTHER -> t.title

\* C23: the confirmation of every applied edit follow-up (edit_title,
\* edit_tags, edit_description, edit_deadline) carries the field's previous
\* value, when it had one, and its new value; the confirmation of an applied
\* set_deadline, add_tags or add_description follow-up carries only the new.
C23_EditsEchoOldAndNew ==
    [][\A u \in Senders : \A T \in DOMAIN store : \A kind \in TaskTargeted :
        (/\ Event(u) /\ done'.kind = "message" /\ Applied(done')
         /\ user_data[u] = Pending(kind, T))
            => LET r == done'.replies[Len(done'.replies)] IN
               /\ T \in DOMAIN store'
               /\ r.new = IF kind = "add_tags" THEN ParseTags(done'.text)
                           ELSE Shown(kind, store'[T])
               /\ IF kind \in {"edit_title", "edit_tags", "edit_description",
                               "edit_deadline"}
                  THEN Shown(kind, store[T]) # None => r.old = Shown(kind, store[T])
                  ELSE r.old = None
      ]_vars

\* C24: a task leaves the Task Store only in a step that handles a
\* confirmdelete_<id> press for its id, and that step removes nothing else; a
\* registered user's confirmdelete_<id> press for a stored task removes it in
\* that step; a registered user's delete_<id> press answers with the
\* confirmation keyboard for that id and leaves the Task Store unchanged.
C24_RemovedOnlyByConfirmDelete ==
    [][\A T \in DOMAIN store :
        /\ T \notin DOMAIN store'
              => /\ \E u \in Senders : Press(u, Button("confirmdelete", T))
                 /\ DOMAIN store' = DOMAIN store \ {T}
                 /\ \A i \in DOMAIN store' : store'[i] = store[i]
        /\ \A u \in Senders :
              (Press(u, Button("confirmdelete", T)) /\ Registered(World, u))
                  => T \notin DOMAIN store'
        /\ \A u \in Senders :
              (Press(u, Button("delete", T)) /\ Registered(World, u))
                  => /\ store' = store
                     /\ Len(done'.replies) = 1
                     /\ done'.replies[1].kind = "delete_confirm"
                     /\ done'.replies[1].buttons = DeleteKeyboard(T)
      ]_vars

\* C24 witness: task a is gone, and the event just handled is the press
\* confirmdelete_a that followed a delete_a press
C24_Witness ==
    /\ IdA \notin DOMAIN store /\ IdB \in DOMAIN store
    /\ done.kind = "callback" /\ done.text = Button("confirmdelete", IdA)
    /\ done.seq = 2
    /\ Len(done.replies) = 1 /\ done.replies[1].kind = "task_deleted"

\* this step stores exactly one new task, owned by u and titled `title`, and
\* leaves every other task as it was
CreatedOne(u, title) ==
    /\ \E i \in DOMAIN store' \ DOMAIN store :
          /\ DOMAIN store' = DOMAIN store \cup {i}
          /\ store'[i].title = title /\ store'[i].user_id = u
    /\ \A i \in DOMAIN store : store'[i] = store[i]

\* this step handles the command `text` of sender u
CommandOf(u, text) == Event(u) /\ done'.kind = "command" /\ done'.text = text

C26_ClearedOnlyByItsReader ==
    [][\A u \in Senders :
        (/\ user_data[u].pending_action \in TaskTargeted
         /\ user_data'[u].pending_action = NoAction)
            => \E h \in handlers :
                  /\ h.sender = u /\ h.kind = "message" /\ h.pc = "msg_clear"
                  /\ h \notin handlers'
                  /\ h.took = set_by[u]
      ]_vars

\* C27: when the only two events are flow-opening presses of one registered
\* user for stored tasks, delivered as P1 then P2, then at the step where the
\* second of their handlers completes, in whatever interleaving, the slot
\* holds the pending action of P2, the press delivered later.
C27_LaterPressWins ==
    [][(/\ events = 2 /\ handlers # {} /\ handlers' = {}
        /\ done.kind = "callback" /\ done'.kind = "callback"
        /\ done.sender = done'.sender
        /\ {done.seq, done'.seq} = {1, 2}
        /\ IsFlowVerb(done.action) /\ IsFlowVerb(done'.action))
            => LET P2 == IF done.seq = 2 THEN done ELSE done'
               IN user_data'[P2.sender] = Pending(FlowOf[P2.action[1]], P2.task_id)
      ]_vars

\* C28: when a priority press for task T and a deadline follow-up for the same
\* T have both been handled with their confirmations, in whatever
\* interleaving, then at the step where the second of the two handlers
\* completes the stored T carries both the new priority and the new deadline.
C28_BothEditsKept ==
    [][\A T \in DOMAIN store :
        (/\ handlers # {} /\ handlers' = {}
         /\ {done.kind, done'.kind} = {"callback", "message"}
         /\ LET press == IF done.kind = "callback" THEN done ELSE done'
                text == IF done.kind = "message" THEN done ELSE done'
            IN /\ press.text = <<"priority", "_", "high", "_">> \o T
               /\ Len(press.replies) = 1 /\ press.replies[1].kind = "priority_set"
               /\ text.text = TomorrowAt9 /\ Applied(text)
               /\ text.pending_action = "set_deadline" /\ text.task_id = T)
            => /\ T \in DOMAIN store'
               /\ store'[T].priority = "high"
               /\ store'[T].deadline = <<2026, 2, 15, 9, 0, 0>>
      ]_vars

\* the handler that the step resuming h leaves behind: suspended again, or
\* completed
Resumed(h) ==
    IF handlers' \ handlers = {} THEN done'
    ELSE CHOOSE g \in handlers' \ handlers : TRUE

\* C29: under every interleaving, a step changes a user's slot only while
\* resuming a handler of an event of that same user: the slots of all other
\* users stay as they are; and what a free-text handler takes as its pending
\* action and target is the content of its own sender's slot.
C29_OtherUsersSlotUntouched ==
    [][/\ handlers \ handlers' = {} => user_data' = user_data
       /\ \A h \in handlers \ handlers' :
            /\ \A U \in Senders \ {h.sender} : user_data'[U] = user_data[U]
            /\ h.pc = "msg_read_pending"
                  => /\ Resumed(h).seq = h.seq
                     /\ Resumed(h).pending_action = user_data[h.sender].pending_action
                     /\ Resumed(h).task_id = user_data[h.sender].task_id
      ]_vars

\* C29 witness: u2's tag follow-up for task b has been applied and u2's slot
\* cleared while u1's (set_deadline, a) is still recorded
C29_Witness ==
    /\ done.kind = "message" /\ done.sender = "u2" /\ Applied(done)
    /\ done.pending_action = "add_tags" /\ done.task_id = IdB
    /\ user_data["u2"] = NoPending
    /\ user_data["u1"] = Pending("set_deadline", IdA)

\* C30: in every reachable state, under every interleaving of handlers, the
\* user collection holds at most one profile per sender; in particular two
\* /start handlers of one unknown sender leave exactly one profile.
C30_OneProfilePerSender == \A s \in Senders : users[s] <= 1

\* C31: no step of the router changes the status of a stored task: a task
\* that stays in the store keeps its status, and a task the router creates
\* gets the status todo, so no task becomes completed by a press, a command
\* or a follow-up text.
C31_StatusNeverChanged ==
    [][/\ \A T \in DOMAIN store \cap DOMAIN store' :
             store'[T].status = store[T].status
       /\ \A T \in DOMAIN store' \ DOMAIN store : store'[T].status = "todo"
      ]_vars

\* C31 witness: task a got a new deadline by a follow-up and then a new
\* priority by a press, and its status is still todo
C31_Witness ==
    /\ done.kind = "callback" /\ done.text = <<"priority", "_", "high", "_">> \o IdA
    /\ IdA \in DOMAIN store
    /\ store[IdA].deadline = <<2026, 2, 15, 9, 0, 0>>
    /\ store[IdA].priority = "high"
    /\ store[IdA].status = "todo"

NoDuplicates(s) == \A i \in 1..Len(s) : \A j \in 1..Len(s) : i # j => s[i] # s[j]

\* C33: the tags of every stored task form a set: whatever add_tags and
\* edit_tags follow-ups have been applied, no task holds the same tag twice.
C33_TagsFormASet == \A T \in DOMAIN store : NoDuplicates(store[T].tags)

\* datetime a < datetime b
Earlier(a, b) ==
    \E i \in 1..6 : a[i] < b[i] /\ \A j \in 1..(i - 1) : a[j] = b[j]

\* C34: every deadline written to the Task Store by an applied set_deadline
\* or edit_deadline follow-up is strictly later than now at the time of the
\* write.
C34_WrittenDeadlineInFuture ==
    [][\A u \in Senders : \A T \in DOMAIN store :
        (/\ FollowUp(u) /\ Applied(done')
         /\ user_data[u].pending_action \in {"set_deadline", "edit_deadline"}
         /\ user_data[u].task_id = T)
            => Earlier(now, store'[T].deadline)
      ]_vars

\* C35: under every interleaving, whenever a handler sends a success
\* confirmation for a follow-up or a priority selection, the task it confirms
\* is in the Task Store with the values the handler has just written, also
\* when the task was deleted between the handler's load and its write.
C35_ConfirmedMeansStored ==
    [][\A h \in handlers \ handlers' :
        LET g == Resumed(h) IN
        (/\ g.seq = h.seq /\ Len(g.replies) > Len(h.replies)
         /\ g.replies[Len(g.replies)].kind \in SavedKinds \cup {"priority_set"})
            => /\ g.task.id \in DOMAIN store'
               /\ store'[g.task.id] = g.task
      ]_vars

\* C36: an event of a sender who has no profile when it is handled (a press,
\* the priority form included, a command or a free-text message) leaves
\* every task record as it was.
C36_UnregisteredChangesNothing ==
    [][\A u \in Senders :
        (Event(u) /\ ~Registered(World, u)) => store' = store
      ]_vars

\* the button payloads on the keyboards of handler h's replies
Offered(h) == UNION {h.replies[i].buttons : i \in 1..Len(h.replies)}

\* C37: when a user presses a button that the reply to that user's previous
\* event offered, and the button's task is still stored, the press is not
\* answered with 'unknown action': every payload the router puts on a
\* keyboard decodes to a verb it recognizes.
C37_OfferedButtonsRecognized ==
    [][\A u \in Senders : \A data \in Offered(done) :
        (/\ done.sender = u /\ Press(u, data)
         /\ done'.task_id \in DOMAIN store)
            => \A i \in 1..Len(done'.replies) :
                    done'.replies[i].kind # "unknown_action"
      ]_vars

====
